---- MODULE Spec2Model ----
(***************************************************************************)
(* State-machine model of the snowball game (class XmasGame).              *)
(*                                                                         *)
(* Two builds of the class are in the repository: src/game.js and the      *)
(* later one in src/unnamed/part_000.  The variable `variant` says which   *)
(* build a behaviour runs; the two differ in the elevation mapping, in the *)
(* card dimensions and in when the card is created.                        *)
(*                                                                         *)
(* Units.  Angles are counted in steps of 7.5 degrees (12 = PI/2).         *)
(* Direction vectors, normals and the lengths of the card and of contact   *)
(* points are in thousandths of a scene unit (1.5 = 1500, 2.25 = 2250).    *)
(* timeAlive is counted in frames of fixedTimeStep = 1/60 s: 300 additions *)
(* of 1/60 in double precision give a value below 5, 301 a value above.    *)
(* JavaScript runs every handler to completion, so handlers are atomic;    *)
(* animate is cut at the points the claims speak about (during world.step, *)
(* after it, at renderer.render) and `pc` keeps other handlers out while a *)
(* frame is in progress.                                                   *)
(***************************************************************************)
EXTENDS Integers, Sequences, FiniteSets, TLC

VARIABLES
    variant,        \* "game" (src/game.js) or "part0" (src/unnamed/part_000)
    card,           \* the card: loaded, dimensions, canvas size, mesh and body pose
    isAiming,       \* this.isAiming
    currentAim,     \* this.currentAim
    cannonRotation, \* this.cannonMesh.rotation, as the pair of local rotations
    aimLine,        \* this.aimLine.geometry points (<<>> when hidden)
    powerSlider,    \* value of the #cannon-power input
    currentPower,   \* this.currentPower
    powerBar,       \* this.powerBar.scale.y in sixtieths (game.js only)
    snowballs,      \* this.snowballs
    scene,          \* ids of the snowball meshes in this.scene
    world,          \* ids of the snowball bodies in this.world.bodies
    toRemove,       \* this.toRemove
    nextId,         \* number of snowball objects constructed so far
    snowCanvasFront,\* splats drawn on this.snowCanvasFront
    snowCanvasBack, \* splats drawn on this.snowCanvasBack
    needsUpdate,    \* overlays whose texture is flagged needsUpdate
    pc,             \* where the animate frame is: idle, step (in world.step),
                    \* render (the step returned), renderCaught (it threw)
    ev,             \* the event or callback handled last
    downs           \* number of mousedown events so far

vars == <<variant, card, isAiming, currentAim, cannonRotation,
          aimLine, powerSlider, currentPower, powerBar, snowballs, scene, world,
          toRemove, nextId, snowCanvasFront, snowCanvasBack, needsUpdate,
          pc, ev, downs>>

(***************************************************************************)
(* Bounds of the model.                                                    *)
(***************************************************************************)
MaxDowns == 2
MaxAge == 1

(***************************************************************************)
(* Program constants.                                                      *)
(***************************************************************************)
maxThrowPower == 60
DefaultPower == 30
SliderInitial == 35
MaxTimeAlive == 5
StepsPerSecond == 60

Variants == {"game", "part0"}

(***************************************************************************)
(* Vectors and the trigonometry of the two local rotations.                *)
(***************************************************************************)
Vec(a, b, c) == [x |-> a, y |-> b, z |-> c]
VAdd(u, v) == Vec(u.x + v.x, u.y + v.y, u.z + v.z)
VSub(u, v) == Vec(u.x - v.x, u.y - v.y, u.z - v.z)
VNeg(u) == Vec(-u.x, -u.y, -u.z)
VScale(u, k) == Vec(u.x * k, u.y * k, u.z * k)

Max(a, b) == IF a >= b THEN a ELSE b
Min(a, b) == IF a <= b THEN a ELSE b

\* sin of 0, 7.5, ..., 90 degrees in thousandths
SinTab == <<0, 131, 259, 383, 500, 609, 707, 793, 866, 924, 966, 991, 1000>>

Sin1000(a) ==
    LET m == a % 48
    IN  IF m <= 12 THEN SinTab[m + 1]
        ELSE IF m <= 24 THEN SinTab[24 - m + 1]
        ELSE IF m <= 36 THEN -SinTab[m - 24 + 1]
        ELSE -SinTab[48 - m + 1]

Cos1000(a) == Sin1000(a + 12)

\* division by 1000 rounding toward zero
Div1000(n) == IF n >= 0 THEN n \div 1000 ELSE -((-n) \div 1000)

\* right-handed rotation of v about the X axis by angle a
RotateX(v, a) ==
    Vec(v.x,
        Div1000(v.y * Cos1000(a) - v.z * Sin1000(a)),
        Div1000(v.y * Sin1000(a) + v.z * Cos1000(a)))

\* right-handed rotation of v about the Y axis by angle a
RotateY(v, a) ==
    Vec(Div1000(v.x * Cos1000(a) + v.z * Sin1000(a)),
        v.y,
        Div1000(v.z * Cos1000(a) - v.x * Sin1000(a)))

\* Object3D.rotateY(ry) then Object3D.rotateX(rx) on a reset rotation gives the
\* quaternion qY * qX; applying it turns v about X first, then about Y.
ApplyEuler(v, rot) == RotateY(RotateX(v, rot.rx), rot.ry)

\* new THREE.Vector3(0, 0, -1).applyEuler(this.cannonMesh.rotation)
Direction(rot) == ApplyEuler(Vec(0, 0, -1000), rot)

(***************************************************************************)
(* Aiming: updateAimVisuals.                                               *)
(***************************************************************************)
\* renderer.domElement.getBoundingClientRect(): the canvas fills the window
Rect == [left |-> 0, top |-> 0, width |-> 12, height |-> 12]

\* pointer positions inside the canvas
ClientPoints == {[clientX |-> cx, clientY |-> cy] :
                    cx \in Rect.left .. Rect.left + Rect.width,
                    cy \in Rect.top .. Rect.top + Rect.height}

\* x = ((clientX - rect.left) / rect.width) * 2 - 1, in sixths
NormX(event) == ((event.clientX - Rect.left) * 12) \div Rect.width - 6

\* y = -((clientY - rect.top) / rect.height) * 2 + 1, in sixths
NormY(event) == 6 - ((event.clientY - Rect.top) * 12) \div Rect.height

\* azimuthAngle = -x * PI / 2
AzimuthAngle(event) == -NormX(event) * 2

\* (mutant: the linear map of game.js without its clamp)
ElevationAngleUnclamped(v, event) ==
    IF v = "game" THEN (NormY(event) + 6) * 2 ELSE NormY(event) + 6

\* game.js: Math.max(0, Math.min(PI/2, (y + 1) * PI / 2))
\* part_000: (y + 1) * PI / 4
ElevationAngle(v, event) ==
    IF v = "game"
    THEN Max(0, Min(12, (NormY(event) + 6) * 2))
    ELSE NormY(event) + 6

\* rotation.set(0, 0, 0); rotateY(azimuthAngle); rotateX(-elevationAngle)
AimRotation(v, event) ==
    [ry |-> AzimuthAngle(event), rx |-> -ElevationAngle(v, event)]

\* this.cannonMesh.position, in two-thousandths
CannonPosition == Vec(0, -3000, 8000)

\* aimLength = 4 + currentPower * 0.05, in twentieths
AimLength(power) == 80 + power

\* the two points of the aim line: the cannon position and the offset
\* direction * aimLength (in twenty-thousandths) from it
AimPoints(rot, power) ==
    <<CannonPosition, VScale(Direction(rot), AimLength(power))>>

(***************************************************************************)
(* The card: setupCard.                                                    *)
(***************************************************************************)
\* a pose is a position and a quaternion; the quaternions of the model are
\* the quarter turns about the vertical axis (rot quarter turns)
Pose(p, r) == [position |-> p, rot |-> r]

\* texture.image of the part_000 build: the images a card may be loaded from
Images == {[width |-> 512, height |-> 768]}

NoCard ==
    [loaded |-> FALSE, width |-> 0, height |-> 0, canvasWidth |-> 0,
     canvasHeight |-> 0, mesh |-> Pose(Vec(0, 0, 0), 0),
     body |-> Pose(Vec(0, 0, 0), 0)]

\* game.js: PlaneGeometry(3, 4.5), canvases 512 x 768, card and body at the
\* origin.  part_000: cardWidth = 4, cardHeight = cardWidth * aspectRatio,
\* canvases of the image's size, card and body at z = -1.
SetupCard(v, image) ==
    IF v = "game"
    THEN [loaded |-> TRUE, width |-> 3000, height |-> 4500,
          canvasWidth |-> 512, canvasHeight |-> 768,
          mesh |-> Pose(Vec(0, 0, 0), 0), body |-> Pose(Vec(0, 0, 0), 0)]
    ELSE [loaded |-> TRUE, width |-> 4000,
          height |-> (4000 * image.height) \div image.width,
          canvasWidth |-> image.width, canvasHeight |-> image.height,
          mesh |-> Pose(Vec(0, 0, -1000), 0),
          body |-> Pose(Vec(0, 0, -1000), 0)]

\* half the thickness of the card body: CANNON.Box(Vec3(.., .., 0.1))
CardHalfDepth == 100

\* Object3D.worldToLocal(v) for an object of the given pose
WorldToLocal(pose, v) == RotateY(VSub(v, pose.position), -12 * pose.rot)

\* a body-local vector turned into world orientation (body.quaternion.vmult)
ToWorldFrame(pose, v) == RotateY(v, 12 * pose.rot)

\* Vector3.normalize() for the axis-parallel vectors of the model
Normalize(v) ==
    LET abs(n) == IF n >= 0 THEN n ELSE -n
        len == abs(v.x) + abs(v.y) + abs(v.z)
    IN  IF len = 0 THEN v
        ELSE Vec((v.x * 1000) \div len, (v.y * 1000) \div len, (v.z * 1000) \div len)

(***************************************************************************)
(* The contact the physics engine hands to a collide listener.             *)
(* face is the side of the card that was struck, point the card-local x, y *)
(* of the contact, cardIsBody1 whether the card is contact.bi.             *)
(* ri / rj go from a body's centre to the contact point in world           *)
(* orientation; ni is the contact normal pointing out of body bi.          *)
(***************************************************************************)
FaceZ(face) == IF face = "front" THEN 1 ELSE -1

Contact(cardBody, face, point, cardIsBody1) ==
    LET outward == ToWorldFrame(cardBody, Vec(0, 0, 1000 * FaceZ(face)))
    IN  [face |-> face,
         cardIsBody1 |-> cardIsBody1,
         r  |-> ToWorldFrame(cardBody,
                    Vec(point.x, point.y, CardHalfDepth * FaceZ(face))),
         ni |-> IF cardIsBody1 THEN outward ELSE VNeg(outward)]

(***************************************************************************)
(* Decal painter: addSnowSplat.                                            *)
(***************************************************************************)
Clamp(lo, hi, n) == Max(lo, Min(hi, n))

\* u = (localPosition.x / 1.5 + 1) * 0.5 clamped to [0, 1], in 3000ths
ClampedU(localPosition) == Clamp(0, 3000, localPosition.x + 1500)

\* v = (localPosition.y / 2.25 + 1) * 0.5 clamped to [0, 1], in 4500ths
ClampedV(localPosition) == Clamp(0, 4500, localPosition.y + 2250)

\* localNormal: normal + card.position taken to the card's local frame,
\* normalized; hitFront = localNormal.z < 0
HitFront(cardMesh, normal) ==
    Normalize(WorldToLocal(cardMesh, VAdd(normal, cardMesh.position))).z < 0

\* the main circle of the splat: which canvas, and its centre (local keeps
\* the localPosition it was computed from)
\* x = clampedU * canvas.width (in 3000ths of a pixel),
\* y = (1 - clampedV) * canvas.height (in 4500ths of a pixel).
\* Radius and opacity come from Math.random and decide neither.
AddSnowSplat(c, localPosition, normal) ==
    [front |-> HitFront(c.mesh, normal),
     local |-> [x |-> localPosition.x, y |-> localPosition.y],
     x |-> ClampedU(localPosition) * c.canvasWidth,
     y |-> (4500 - ClampedV(localPosition)) * c.canvasHeight]

\* the collide listener's computation of the arguments of addSnowSplat
ContactPoint(c, contact) == VAdd(c.body.position, contact.r)

\* (mutant: the normal taken as it comes, whichever body the card is)
ContactNormalAsGiven(contact) == contact.ni

ContactNormal(contact) ==
    IF contact.cardIsBody1 THEN VNeg(contact.ni) ELSE contact.ni

LocalPos(c, contact) == WorldToLocal(c.mesh, ContactPoint(c, contact))

(***************************************************************************)
(* Variable groups.                                                        *)
(***************************************************************************)
aimVars == <<isAiming, currentAim, cannonRotation, aimLine>>
powerVars == <<powerSlider, currentPower, powerBar>>
ballVars == <<snowballs, scene, world, toRemove, nextId>>
canvasVars == <<snowCanvasFront, snowCanvasBack, needsUpdate>>

Zero == Vec(0, 0, 0)

\* what the handler run last was and did: its kind, the snowball and the
\* other body of a collide callback and whether the callback called
\* addSnowSplat, and for a throw the position and velocity throwSnowball
\* gave the new body
Event(type, sb, body) ==
    [type |-> type, sb |-> sb, body |-> body, painted |-> FALSE,
     position |-> Zero, velocity |-> Zero]

(***************************************************************************)
(* Init: the state the constructor leaves.  Its call of animate steps a    *)
(* world without snowballs.                                                *)
(***************************************************************************)
Init ==
    /\ variant \in Variants
    /\ card = IF variant = "game"
              THEN SetupCard("game", [width |-> 512, height |-> 768])
              ELSE NoCard
    /\ isAiming = FALSE
    /\ currentAim = [x |-> 0, y |-> 0]
    /\ cannonRotation = [ry |-> 0, rx |-> 0]
    /\ aimLine = <<>>
    /\ powerSlider = SliderInitial
    /\ currentPower = DefaultPower
    /\ powerBar = 0
    /\ snowballs = <<>>
    /\ scene = {}
    /\ world = {}
    /\ toRemove = {}
    /\ nextId = 0
    /\ snowCanvasFront = <<>>
    /\ snowCanvasBack = <<>>
    /\ needsUpdate = {}
    /\ pc = "idle"
    /\ ev = Event("other", -1, "none")
    /\ downs = 0

(***************************************************************************)
(* Aiming controller.                                                      *)
(***************************************************************************)
\* updateAimVisuals(event) once isAiming is known to be true: the cannon
\* orientation and the aim line
UpdateAimVisuals(event) ==
    /\ cannonRotation' = AimRotation(variant, event)
    /\ aimLine' = AimPoints(AimRotation(variant, event), currentPower)

\* mousedown on the canvas (aimingStart and throwPower, which the handler
\* also writes, are read nowhere)
StartAiming(event) ==
    /\ pc = "idle"
    /\ isAiming' = TRUE
    /\ currentAim' = [x |-> event.clientX, y |-> event.clientY]
    /\ UpdateAimVisuals(event)
    /\ ev' = Event("other", -1, "none")
    /\ downs' = downs + 1
    /\ UNCHANGED <<variant, card, powerVars, ballVars, canvasVars, pc>>

\* (mutant: updateAiming without its early return)
UpdateAimingAlways(event) ==
    /\ pc = "idle"
    /\ ev' = Event("mousemove", -1, "none")
    /\ currentAim' = [x |-> event.clientX, y |-> event.clientY]
    /\ UpdateAimVisuals(event)
    /\ UNCHANGED isAiming
    /\ UNCHANGED <<variant, card, powerVars, ballVars, canvasVars, pc, downs>>

\* mousemove on the canvas
UpdateAiming(event) ==
    /\ pc = "idle"
    /\ ev' = Event("mousemove", -1, "none")
    /\ IF ~isAiming
       THEN UNCHANGED aimVars
       ELSE /\ currentAim' = [x |-> event.clientX, y |-> event.clientY]
            /\ UpdateAimVisuals(event)
            /\ UNCHANGED isAiming
    /\ UNCHANGED <<variant, card, powerVars, ballVars, canvasVars, pc, downs>>

(***************************************************************************)
(* Projectile manager: throwSnowball, removeSnowball, cleanupPhysics.      *)
(***************************************************************************)
\* direction.multiplyScalar(0.5) added to the cannon position, in
\* two-thousandths
MuzzlePosition(rot) == VAdd(CannonPosition, Direction(rot))

\* speed = currentPower * 0.5; velocity = direction * speed, in
\* two-thousandths
LaunchVelocity(rot, power) == VScale(Direction(rot), power)

\* the snowball object of throwSnowball.  mesh and body hold the pose
\* (position and quaternion) of the mesh and of the body: "muzzle" where
\* throwSnowball puts both, "flight" once the physics has moved the body,
\* "below" once it has moved it to a place with y < -3.
NewSnowball(id) ==
    [id |-> id, timeAlive |-> 0, isCollided |-> FALSE,
     mesh |-> "muzzle", body |-> "muzzle"]

\* the mouseup event that threw snowball id
Thrown(id, rot, power) ==
    [Event("mouseup", id, "none") EXCEPT
        !.position = MuzzlePosition(rot),
        !.velocity = LaunchVelocity(rot, power)]

\* (mutant: a throw that takes the mesh and body of a despawned snowball
\* when there is one)
SpawnSnowballPooled ==
    LET free == {id \in 0 .. nextId - 1 : id \notin world}
        id == IF free = {} THEN nextId ELSE CHOOSE f \in free : TRUE
    IN  /\ ev' = Thrown(id, cannonRotation, currentPower)
        /\ isAiming' = FALSE
        /\ aimLine' = <<>>
        /\ scene' = scene \cup {id}
        /\ world' = world \cup {id}
        /\ snowballs' = Append(snowballs, NewSnowball(id))
        /\ nextId' = IF free = {} THEN nextId + 1 ELSE nextId
        /\ UNCHANGED <<currentAim, cannonRotation, toRemove>>

\* the body of throwSnowball past its early return: mesh into the scene,
\* body into the world, snowball object onto the list
SpawnSnowball ==
    /\ ev' = Thrown(nextId, cannonRotation, currentPower)
    /\ isAiming' = FALSE
    /\ aimLine' = <<>>
    /\ scene' = scene \cup {nextId}
    /\ world' = world \cup {nextId}
    /\ snowballs' = Append(snowballs, NewSnowball(nextId))
    /\ nextId' = nextId + 1
    /\ UNCHANGED <<currentAim, cannonRotation, toRemove>>

\* (mutant: throwSnowball without its early return)
ThrowSnowballAlways ==
    /\ pc = "idle"
    /\ SpawnSnowball
    /\ UNCHANGED <<variant, card, powerVars, canvasVars, pc, downs>>

\* mouseup on the canvas
ThrowSnowball ==
    /\ pc = "idle"
    /\ IF ~isAiming
       THEN /\ ev' = Event("mouseup", -1, "none")
            /\ UNCHANGED <<aimVars, ballVars>>
       ELSE SpawnSnowball
    /\ UNCHANGED <<variant, card, powerVars, canvasVars, pc, downs>>

\* removeSnowball(snowball): this.toRemove.add(snowball)
RemoveSnowball(marked, id) == marked \cup {id}

\* (mutant: cleanupPhysics without scene.remove)
CleanSceneKeeps(sc, marked) == sc

\* cleanupPhysics: what is left of the scene, the world and the list
CleanScene(sc, marked) == sc \ marked

\* (mutant: cleanupPhysics without world.removeBody)
CleanWorldKeeps(w, marked) == w

CleanWorld(w, marked) == w \ marked
CleanList(list, marked) == SelectSeq(list, LAMBDA s : s.id \notin marked)

(***************************************************************************)
(* Controls: the Cannon Power slider, window resize, texture load.         *)
(***************************************************************************)
\* values the slider is moved to
PowerValues == {100}

\* (mutant: the slider value taken as the power, unscaled)
PowerOfUnscaled(value) == value

\* currentPower = (parseFloat(e.target.value) / 100) * this.maxThrowPower
PowerOf(value) == (value * maxThrowPower) \div 100

\* input event of #cannon-power; game.js also calls updatePowerBar
PowerInput(value) ==
    /\ pc = "idle"
    /\ powerSlider' = value
    /\ currentPower' = PowerOf(value)
    /\ powerBar' = IF variant = "game" THEN PowerOf(value) ELSE powerBar
    /\ ev' = Event("input", -1, "none")
    /\ UNCHANGED <<variant, card, aimVars, ballVars, canvasVars, pc, downs>>

\* (mutant: a resize that also resets the snow canvases)
HandleResizeClears ==
    /\ pc = "idle"
    /\ ev' = Event("other", -1, "none")
    /\ snowCanvasFront' = <<>>
    /\ snowCanvasBack' = <<>>
    /\ UNCHANGED <<variant, card, aimVars, powerVars, ballVars, needsUpdate,
                   pc, downs>>

\* resize: camera aspect and renderer size only
HandleResize ==
    /\ pc = "idle"
    /\ ev' = Event("other", -1, "none")
    /\ UNCHANGED <<variant, card, aimVars, powerVars, ballVars, canvasVars,
                   pc, downs>>

\* part_000: the load callback of the card texture builds the card
TextureLoaded(image) ==
    /\ pc = "idle"
    /\ variant = "part0"
    /\ ~card.loaded
    /\ card' = SetupCard(variant, image)
    /\ ev' = Event("other", -1, "none")
    /\ UNCHANGED <<variant, aimVars, powerVars, ballVars, canvasVars, pc, downs>>

(***************************************************************************)
(* The frame: animate.                                                     *)
(***************************************************************************)
IndexOf(list, id) == CHOOSE i \in 1..Len(list) : list[i].id = id

InList(list, id) == \E i \in 1..Len(list) : list[i].id = id

\* requestAnimationFrame calls animate; world.step starts
AnimateBegin ==
    /\ pc = "idle"
    /\ pc' = "step"
    /\ ev' = Event("other", -1, "none")
    /\ UNCHANGED <<variant, card, aimVars, powerVars, ballVars, canvasVars,
                   downs>>

\* the listener's body once its test has passed: flag, splat, mark
PaintAndRemove(id, body, contact) ==
    LET i == IndexOf(snowballs, id)
        splat == [by |-> id, face |-> contact.face] @@
                 AddSnowSplat(card, LocalPos(card, contact),
                              ContactNormal(contact))
    IN  /\ ev' = [Event("collide", id, body) EXCEPT !.painted = TRUE]
        /\ snowballs' = [snowballs EXCEPT ![i].isCollided = TRUE]
        /\ IF splat.front
           THEN /\ snowCanvasFront' = Append(snowCanvasFront, splat)
                /\ needsUpdate' = needsUpdate \cup {"front"}
                /\ UNCHANGED snowCanvasBack
           ELSE /\ snowCanvasBack' = Append(snowCanvasBack, splat)
                /\ needsUpdate' = needsUpdate \cup {"back"}
                /\ UNCHANGED snowCanvasFront
        /\ toRemove' = RemoveSnowball(toRemove, id)

\* (mutant: the listener without its isCollided test)
CollideListenerUnflagged(id, body, contact) ==
    /\ pc = "step"
    /\ id \in world
    /\ InList(snowballs, id)
    /\ IF body = "card"
       THEN PaintAndRemove(id, body, contact)
       ELSE /\ ev' = Event("collide", id, body)
            /\ UNCHANGED <<snowballs, toRemove, canvasVars>>
    /\ UNCHANGED <<variant, card, aimVars, powerVars, scene, world, nextId,
                   pc, downs>>

\* (mutant: a listener that removes the snowball on the spot)
CollideListenerRemovesNow(id, body, contact) ==
    /\ pc = "step"
    /\ id \in world
    /\ InList(snowballs, id)
    /\ IF ~snowballs[IndexOf(snowballs, id)].isCollided /\ body = "card"
       THEN /\ PaintAndRemove(id, body, contact)
            /\ scene' = scene \ {id}
            /\ world' = world \ {id}
       ELSE /\ ev' = Event("collide", id, body)
            /\ UNCHANGED <<snowballs, toRemove, canvasVars, scene, world>>
    /\ UNCHANGED <<variant, card, aimVars, powerVars, nextId, pc, downs>>

\* (mutant: a listener that flags and marks the snowball whatever it hit)
CollideListenerMarksAll(id, body, contact) ==
    /\ pc = "step"
    /\ id \in world
    /\ InList(snowballs, id)
    /\ IF ~snowballs[IndexOf(snowballs, id)].isCollided /\ body = "card"
       THEN PaintAndRemove(id, body, contact)
       ELSE /\ ev' = Event("collide", id, body)
            /\ snowballs' =
                 [snowballs EXCEPT ![IndexOf(snowballs, id)].isCollided = TRUE]
            /\ toRemove' = RemoveSnowball(toRemove, id)
            /\ UNCHANGED canvasVars
    /\ UNCHANGED <<variant, card, aimVars, powerVars, scene, world, nextId,
                   pc, downs>>

\* the listener throwSnowball adds to the body of snowball id, called by the
\* engine during world.step with e.body = body and e.contact = contact
CollideListener(id, body, contact) ==
    /\ pc = "step"
    /\ id \in world
    /\ InList(snowballs, id)
    /\ IF ~snowballs[IndexOf(snowballs, id)].isCollided /\ body = "card"
       THEN PaintAndRemove(id, body, contact)
       ELSE /\ ev' = Event("collide", id, body)
            /\ UNCHANGED <<snowballs, toRemove, canvasVars>>
    /\ UNCHANGED <<variant, card, aimVars, powerVars, scene, world, nextId,
                   pc, downs>>

\* the bodies of the world a snowball can touch besides the card: the
\* ground and the other snowballs (the anchor body has no shape)
OtherBodies(id) ==
    {"ground"} \cup (IF world \ {id} # {} THEN {"snowball"} ELSE {})

\* contact points on the card the engine reports
ContactPoints == {[x |-> 1000, y |-> -1500]}

Faces == {"front", "back"}

NoContact == [face |-> "none", cardIsBody1 |-> FALSE, r |-> Zero, ni |-> Zero]

CollideCard ==
    \E id \in world, face \in Faces, point \in ContactPoints, b1 \in BOOLEAN :
        /\ card.loaded
        /\ CollideListener(id, "card", Contact(card.body, face, point, b1))

CollideOther ==
    \E id \in world : \E body \in OtherBodies(id) :
        CollideListener(id, body, NoContact)

\* the positions the card body rests at
RestPosition(v) == IF v = "game" THEN Vec(0, 0, 0) ELSE Vec(0, 0, -1000)

\* poses the integration leaves the card body in: at rest, or swung back
\* and turned half round on its string
CardPoses(v) ==
    {Pose(RestPosition(v), 0),
     Pose(VAdd(RestPosition(v), Vec(0, 0, -500)), 2)}

BodyPoses == {"flight", "below"}

\* snowball.timeAlive > 5 || snowball.body.position.y < -3
Expired(s) ==
    s.timeAlive > MaxTimeAlive * StepsPerSecond \/ s.body = "below"

\* the guard of the update loop
Live(s, w, marked) == s.id \in w /\ s.id \notin marked

\* (mutant: an update loop that ages the snowball but leaves its mesh)
UpdateSnowballNoCopy(s) == [s EXCEPT !.timeAlive = s.timeAlive + 1]

\* (mutant: an update loop that forgets to age the snowball)
UpdateSnowballAgeless(s) == [s EXCEPT !.mesh = s.body]

\* one iteration of the update loop on a live snowball
UpdateSnowball(s) ==
    [s EXCEPT !.timeAlive = s.timeAlive + 1, !.mesh = s.body]

\* the update loop over the list left by cleanupPhysics
UpdateLoop(list, w) ==
    [i \in 1..Len(list) |->
        IF Live(list[i], w, {}) THEN UpdateSnowball(list[i]) ELSE list[i]]

MarkedByLoop(list, w) ==
    {list[i].id : i \in {j \in 1..Len(list) :
                            /\ Live(list[j], w, {})
                            /\ Expired(UpdateSnowball(list[j]))}}

\* the bodies of the list that the integration of world.step may move
MovedBodies(list, w, move) ==
    [i \in 1..Len(list) |->
        IF list[i].id \in w THEN [list[i] EXCEPT !.body = move[i]] ELSE list[i]]

\* world.step returns, having moved the bodies of the world; then
\* cleanupPhysics, the copy of the card pose and the update loop run, and
\* renderer.render is due
AnimateStepped ==
    /\ pc = "step"
    /\ pc' = "render"
    /\ ev' = Event("other", -1, "none")
    /\ scene' = CleanScene(scene, toRemove)
    /\ world' = CleanWorld(world, toRemove)
    /\ IF card.loaded
       THEN \E p \in CardPoses(variant) :
               card' = [card EXCEPT !.body = p, !.mesh = p]
       ELSE UNCHANGED card
    /\ \E move \in [1..Len(snowballs) -> BodyPoses] :
          LET list == CleanList(MovedBodies(snowballs, world, move), toRemove)
              w == CleanWorld(world, toRemove)
          IN  /\ snowballs' = UpdateLoop(list, w)
              /\ toRemove' = MarkedByLoop(list, w)
    /\ UNCHANGED <<variant, aimVars, powerVars, nextId, canvasVars, downs>>

\* world.step throws (before it integrates the bodies); the catch block runs
\* cleanupPhysics only, and renderer.render is due
AnimateCaught ==
    /\ pc = "step"
    /\ pc' = "renderCaught"
    /\ ev' = Event("other", -1, "none")
    /\ scene' = CleanScene(scene, toRemove)
    /\ world' = CleanWorld(world, toRemove)
    /\ snowballs' = CleanList(snowballs, toRemove)
    /\ toRemove' = {}
    /\ UNCHANGED <<variant, card, aimVars, powerVars, nextId, canvasVars, downs>>

\* renderer.render(scene, camera): flagged textures are uploaded
Render ==
    /\ pc \in {"render", "renderCaught"}
    /\ pc' = "idle"
    /\ needsUpdate' = {}
    /\ ev' = Event("other", -1, "none")
    /\ UNCHANGED <<variant, card, aimVars, powerVars, ballVars, snowCanvasFront,
                   snowCanvasBack, downs>>

(***************************************************************************)
(* The game: every handler, with the number of mousedown events and the    *)
(* age of the snowballs bounded.                                           *)
(***************************************************************************)
\* pointer positions of the mouse events of the game
AimEvents == {[clientX |-> 6, clientY |-> 12], [clientX |-> 3, clientY |-> 9]}

MouseDown == \E e \in AimEvents : downs < MaxDowns /\ StartAiming(e)

MouseMove == \E e \in AimEvents : UpdateAiming(e)

SliderInput == \E v \in PowerValues : PowerInput(v)

Load == \E image \in Images : TextureLoaded(image)

\* frames run as long as no snowball still to be updated has reached MaxAge
Frame ==
    /\ \A i \in 1..Len(snowballs) :
          snowballs[i].id \notin toRemove => snowballs[i].timeAlive < MaxAge
    /\ AnimateBegin

Next ==
    \/ MouseDown
    \/ MouseMove
    \/ ThrowSnowball
    \/ SliderInput
    \/ HandleResize
    \/ Load
    \/ Frame
    \/ CollideCard
    \/ CollideOther
    \/ AnimateStepped
    \/ AnimateCaught
    \/ Render

Spec == Init /\ [][Next]_vars

(***************************************************************************)
(* The aiming controller alone, with the pointer anywhere on the canvas.   *)
(***************************************************************************)
MouseDownAt == \E e \in ClientPoints : downs < MaxDowns /\ StartAiming(e)

MouseMoveTo == \E e \in ClientPoints : UpdateAiming(e)

NextAim ==
    \/ MouseDownAt
    \/ MouseMoveTo
    \/ ThrowSnowball
    \/ SliderInput

SpecAim == Init /\ [][NextAim]_vars

(***************************************************************************)
(* The life of a snowball: frames without bound on the age, the physics    *)
(* step always returning, one snowball in the air at a time.  animate      *)
(* re-requests itself at every call, so every frame that is due runs.      *)
(***************************************************************************)
MaxLifeThrows == 1

MouseDownAlone ==
    \E e \in AimEvents :
        /\ nextId < MaxLifeThrows
        /\ snowballs = <<>>
        /\ ~isAiming
        /\ StartAiming(e)

NextLife ==
    \/ MouseDownAlone
    \/ ThrowSnowball
    \/ Load
    \/ AnimateBegin
    \/ CollideCard
    \/ CollideOther
    \/ AnimateStepped
    \/ Render

SpecLife ==
    /\ Init
    /\ [][NextLife]_vars
    /\ WF_vars(AnimateBegin)
    /\ WF_vars(AnimateStepped)
    /\ WF_vars(Render)

(***************************************************************************)
(* The power slider anywhere on its range, with the aiming controller.     *)
(***************************************************************************)
\* values of input#cannon-power (min 0, max 100)
PowerRange == {0, 35, 50, 100}

SliderInputAny == \E v \in PowerRange : PowerInput(v)

NextPower ==
    \/ MouseDown
    \/ MouseMove
    \/ ThrowSnowball
    \/ SliderInputAny

SpecPower == Init /\ [][NextPower]_vars

(***************************************************************************)
(* Properties.                                                             *)
(***************************************************************************)
\* the snowballs spawned so far
Spawned == 0 .. nextId - 1

\* the splats snowball id has painted, on either canvas
SplatsBy(id) ==
    Cardinality({i \in DOMAIN snowCanvasFront : snowCanvasFront[i].by = id})
    + Cardinality({i \in DOMAIN snowCanvasBack : snowCanvasBack[i].by = id})

IsPrefix(s, t) == Len(s) <= Len(t) /\ SubSeq(t, 1, Len(s)) = s

\* C1: a snowball is spawned only by throwSnowball called while isAiming:
\* the call then adds exactly one mesh, one body and one list entry and
\* clears isAiming; called while isAiming is false it changes nothing; and
\* the snowballs spawned never outnumber the mousedown events.
C1_SpawnOnlyOnRelease ==
    /\ [](nextId <= downs)
    /\ [][/\ nextId' # nextId =>
               /\ ev'.type = "mouseup" /\ ev'.sb = nextId
               /\ isAiming /\ ~isAiming'
               /\ nextId' = nextId + 1
               /\ scene' = scene \cup {nextId} /\ nextId \notin scene
               /\ world' = world \cup {nextId} /\ nextId \notin world
               /\ Len(snowballs') = Len(snowballs) + 1
               /\ SubSeq(snowballs', 1, Len(snowballs)) = snowballs
               /\ snowballs'[Len(snowballs')].id = nextId
          /\ ev'.type = "mouseup" /\ isAiming => nextId' = nextId + 1
          /\ ev'.type = "mouseup" /\ ~isAiming =>
               UNCHANGED <<variant, card, aimVars, powerVars, ballVars,
                           canvasVars, pc, downs>>
          /\ (scene' \ scene) \cup (world' \ world) \subseteq {nextId}]_vars

\* a second snowball has been thrown, and a release without a press has
\* been ignored since
C1_Witness ==
    /\ nextId = 2
    /\ ev.type = "mouseup" /\ ev.sb = -1
    /\ ~isAiming

\* C2: for every snowball ever spawned, its mesh is in the scene iff its
\* body is in the world iff it is on the snowballs list, after every
\* handler and at every render.
C2_Paired ==
    /\ \A id \in Spawned :
          /\ (id \in scene) <=> (id \in world)
          /\ (id \in world) <=> InList(snowballs, id)
    /\ scene \subseteq Spawned
    /\ world \subseteq Spawned
    /\ \A i, j \in 1..Len(snowballs) :
          snowballs[i].id = snowballs[j].id => i = j

\* at a render, one snowball has been removed and another is still there
C2_Witness ==
    /\ pc = "render"
    /\ nextId = 2
    /\ 0 \notin scene /\ 0 \notin world /\ ~InList(snowballs, 0)
    /\ 1 \in scene /\ 1 \in world /\ InList(snowballs, 1)

\* C3: with animate running and the step returning, a snowball is marked
\* for removal in the first frame that leaves it older than 5 s or below
\* y = -3, whatever is marked is gone from the list, the world and the
\* scene after the cleanupPhysics of the next frame, and so every snowball
\* spawned is eventually despawned.
C3_EventuallyDespawned ==
    /\ [](\A i \in 1..Len(snowballs) :
             /\ snowballs[i].timeAlive <= MaxTimeAlive * StepsPerSecond + 1
             /\ Expired(snowballs[i]) => snowballs[i].id \in toRemove)
    /\ [][\A id \in toRemove :
             (pc = "step" /\ pc' = "render") =>
                 /\ id \notin scene'
                 /\ id \notin world'
                 /\ ~InList(snowballs', id)]_vars
    /\ \A id \in 0 .. MaxLifeThrows - 1 :
          (id \in world) ~>
              (id \notin world /\ id \notin scene /\ ~InList(snowballs, id))

\* a snowball that nothing stopped has just outlived its 5 seconds and is
\* marked
C3_Witness ==
    /\ pc = "render"
    /\ Len(snowballs) = 1
    /\ snowballs[1].timeAlive = MaxTimeAlive * StepsPerSecond + 1
    /\ snowballs[1].body = "flight"
    /\ snowballs[1].id \in toRemove

\* C4: a snowball paints at most one splat in its life: its first collide
\* event with the card calls addSnowSplat once, every later one paints
\* nothing.
C4_OneSplatPerSnowball ==
    /\ [](\A id \in Spawned : SplatsBy(id) <= 1)
    /\ [][ev'.type = "collide" =>
             LET id == ev'.sb
                 first == /\ ev'.body = "card"
                          /\ ~snowballs[IndexOf(snowballs, id)].isCollided
             IN  /\ ev'.painted <=> first
                 /\ first =>
                      /\ SplatsBy(id) = 0
                      /\ Len(snowCanvasFront') + Len(snowCanvasBack')
                           = Len(snowCanvasFront) + Len(snowCanvasBack) + 1
                 /\ ~first =>
                      UNCHANGED <<snowCanvasFront, snowCanvasBack>>]_vars

\* a snowball that has painted its splat touches the card again, and
\* paints nothing
C4_Witness ==
    /\ ev.type = "collide" /\ ev.body = "card" /\ ~ev.painted
    /\ ev.sb \in Spawned
    /\ SplatsBy(ev.sb) = 1

\* the canvas position proportional to a local position on the card as
\* built: x in 3000ths, y in 4500ths of a pixel, cross-multiplied by the
\* card size in units of 0.5
ProportionalAt(c, splat) ==
    /\ splat.x * (c.width \div 500)
         = (splat.local.x + c.width \div 2) * c.canvasWidth * 6
    /\ splat.y * (c.height \div 500)
         = (c.height \div 2 - splat.local.y) * c.canvasHeight * 9

\* C5: every splat is drawn at the canvas position proportional to the
\* local position of the contact on the card as setupCard built it, for
\* the 3 x 4.5 card of game.js and for the 4 x (4 * aspect) card of
\* part_000.
C5_SplatWhereHit ==
    /\ \A i \in DOMAIN snowCanvasFront :
          ProportionalAt(card, snowCanvasFront[i])
    /\ \A i \in DOMAIN snowCanvasBack :
          ProportionalAt(card, snowCanvasBack[i])

\* C6: a hit on the +Z face of the card draws on snowCanvasFront and flags
\* the front overlay, a hit on the -Z face draws on snowCanvasBack and
\* flags the back overlay, whichever of bi and bj the card is, and one hit
\* never draws on both canvases.
C6_SplatOnSideHit ==
    /\ [](/\ \A i \in DOMAIN snowCanvasFront :
                snowCanvasFront[i].face = "front"
          /\ \A i \in DOMAIN snowCanvasBack :
                snowCanvasBack[i].face = "back")
    /\ [][/\ snowCanvasFront' # snowCanvasFront =>
               /\ snowCanvasBack' = snowCanvasBack
               /\ "front" \in needsUpdate'
          /\ snowCanvasBack' # snowCanvasBack =>
               /\ snowCanvasFront' = snowCanvasFront
               /\ "back" \in needsUpdate']_vars

\* both faces of the card have been hit
C6_Witness ==
    /\ Len(snowCanvasFront) >= 1
    /\ Len(snowCanvasBack) >= 1
    /\ ev.type = "collide" /\ ev.painted
    /\ pc = "step"

\* C7: no operation clears or replaces a snow canvas: what is drawn on the
\* front and on the back canvas stays, and the number of splats on each
\* never decreases.
C7_CanvasesAccumulate ==
    [][/\ IsPrefix(snowCanvasFront, snowCanvasFront')
       /\ IsPrefix(snowCanvasBack, snowCanvasBack')]_vars

\* with a splat on the card, a further snowball has just been thrown
C7_Witness ==
    /\ Len(snowCanvasFront) + Len(snowCanvasBack) >= 1
    /\ ev.type = "mouseup" /\ ev.sb >= 0

\* C8: the launch velocity throwSnowball gives the body is raised above
\* the horizontal by the elevation angle: its Y component is never
\* negative, it is zero at elevation 0 with the shot toward -Z, and at 90
\* degrees the shot goes straight up.
C8_ElevationRaisesShot ==
    (ev.type = "mouseup" /\ ev.sb >= 0) =>
        /\ ev.velocity.y >= 0
        /\ cannonRotation.rx = 0 => ev.velocity.y = 0 /\ ev.velocity.z <= 0
        /\ cannonRotation.rx = -12 =>
               /\ ev.velocity.y > 0
               /\ ev.velocity.x = 0 /\ ev.velocity.z = 0

C10_CannonOnlyWhileAiming ==
    [][/\ (ev'.type = "mousemove" /\ ~isAiming) =>
            UNCHANGED <<isAiming, cannonRotation, aimLine, currentAim,
                        snowballs, scene, world>>
       /\ cannonRotation' # cannonRotation =>
            \/ downs' = downs + 1
            \/ ev'.type = "mousemove" /\ isAiming /\ isAiming']_vars

\* after a throw has left the cannon turned, the mouse has moved without
\* a button pressed
C10_Witness ==
    /\ ev.type = "mousemove"
    /\ ~isAiming
    /\ nextId >= 1
    /\ cannonRotation # [ry |-> 0, rx |-> 0]

\* the ids of the snowballs list, in order
Ids(list) == [i \in 1..Len(list) |-> list[i].id]

\* the splats on either canvas
Splats ==
    {snowCanvasFront[i] : i \in DOMAIN snowCanvasFront}
    \cup {snowCanvasBack[i] : i \in DOMAIN snowCanvasBack}

Gone(id) == id \notin world /\ id \notin scene /\ ~InList(snowballs, id)

\* C11: a frame runs physics step, removal of the marked snowballs, copy of
\* the poses, render: when renderer.render is called after a step that
\* completed, the card mesh has the pose of the card body and every
\* snowball on the list has its mesh at the pose of its body.
C11_PosesCopiedAtRender ==
    /\ [](pc = "render" =>
            /\ card.mesh = card.body
            /\ \A i \in 1..Len(snowballs) :
                  /\ snowballs[i].mesh = snowballs[i].body
                  /\ ~snowballs[i].isCollided
                  /\ snowballs[i].id \in world)
    /\ [][/\ pc' = "step" => pc \in {"idle", "step"}
          /\ pc' \in {"render", "renderCaught"} => pc = "step"
          /\ (pc' = "idle" /\ pc # "idle") =>
                pc \in {"render", "renderCaught"}]_vars

\* a render is due with the card swung and a snowball in flight
C11_Witness ==
    /\ pc = "render"
    /\ card.loaded /\ card.body.rot # 0
    /\ Len(snowballs) >= 1
    /\ snowballs[1].body = "flight"

\* C12: currentPower stays within [0, maxThrowPower], equals slider value
\* / 100 * 60 after every input event of the slider, and a snowball thrown
\* at power p starts 0.5 units from the cannon position along the cannon
\* direction with velocity p * 0.5 along the same direction.
C12_PowerBounded ==
    /\ [](/\ currentPower \in 0 .. maxThrowPower
          /\ powerSlider \in 0 .. 100)
    /\ [][/\ ev'.type = "input" =>
               currentPower' * 100 = powerSlider' * maxThrowPower
          /\ (ev'.type = "mouseup" /\ ev'.sb >= 0) =>
               LET off == VSub(ev'.position, CannonPosition)
                   norm2 == off.x * off.x + off.y * off.y + off.z * off.z
               IN  /\ off = ApplyEuler(Vec(0, 0, -1000), cannonRotation)
                   /\ norm2 \in 990000 .. 1010000
                   /\ ev'.velocity.x = off.x * currentPower
                   /\ ev'.velocity.y = off.y * currentPower
                   /\ ev'.velocity.z = off.z * currentPower]_vars

\* a snowball has been thrown at full power off the axis
C12_Witness ==
    /\ ev.type = "mouseup" /\ ev.sb >= 0
    /\ powerSlider = 100 /\ currentPower = maxThrowPower
    /\ ev.velocity.x # 0

\* C13: snowballs are pooled: once a snowball has been despawned, a throw
\* takes its mesh and body instead of constructing new ones, so that no
\* new object is constructed while a despawned one exists.
C13_Pooled ==
    [][(\E id \in Spawned : id \notin world) => nextId' = nextId]_vars

\* C13 (amended): snowballs are not pooled: every throw constructs a new
\* mesh and a new body, and the mesh and body of a despawned snowball
\* never come back into the scene, the world or the list.
C13_NeverReused ==
    [][/\ (ev'.type = "mouseup" /\ isAiming) =>
            /\ ev'.sb = nextId
            /\ nextId' = nextId + 1
            /\ Gone(nextId)
            /\ nextId \in scene' /\ nextId \in world'
            /\ InList(snowballs', nextId)
       /\ \A id \in Spawned : Gone(id) => Gone(id)']_vars

\* with the first snowball despawned, a second one has been thrown
C13_Witness ==
    /\ nextId = 2
    /\ Gone(0)
    /\ ev.type = "mouseup" /\ ev.sb = 1
    /\ 1 \in world

\* C14: while world.step runs, collide callbacks included, no body leaves
\* the world, no mesh leaves the scene and the list keeps its elements:
\* removeSnowball only adds to toRemove, and bodies, meshes and list
\* entries go only in cleanupPhysics, after the step has returned or
\* thrown.
C14_NoRemovalDuringStep ==
    [][/\ (pc = "step" /\ pc' = "step") =>
            /\ scene' = scene
            /\ world' = world
            /\ Ids(snowballs') = Ids(snowballs)
            /\ toRemove \subseteq toRemove'
       /\ (\/ ~(scene \subseteq scene')
           \/ ~(world \subseteq world')
           \/ \E i \in 1..Len(snowballs) :
                 ~InList(snowballs', snowballs[i].id)) =>
            /\ pc = "step"
            /\ pc' \in {"render", "renderCaught"}
       /\ (pc' = "step" /\ ev'.type = "collide" /\ ev'.painted) =>
            /\ ev'.sb \in toRemove'
            /\ ev'.sb \in world' /\ ev'.sb \in scene']_vars

\* inside the step, a snowball has hit the card and is marked, and is
\* still in the world, the scene and the list
C14_Witness ==
    /\ pc = "step"
    /\ ev.type = "collide" /\ ev.painted
    /\ ev.sb \in toRemove
    /\ ev.sb \in world /\ ev.sb \in scene /\ InList(snowballs, ev.sb)

\* C15: a snowball whose collide listener has fired for the card during a
\* frame's step is, when that frame is rendered, off the list, out of the
\* world and out of the scene, and stays so.
C15_HitSnowballGoneAtRender ==
    /\ [](pc # "step" => \A splat \in Splats : Gone(splat.by))
    /\ [][(ev'.type = "collide" /\ ev'.body = "card") =>
             /\ ev'.sb \in toRemove'
             /\ \E splat \in Splats' : splat.by = ev'.sb]_vars

\* a frame whose step saw a hit on the card is about to be rendered
C15_Witness ==
    /\ pc \in {"render", "renderCaught"}
    /\ \E splat \in Splats : splat.by = nextId - 1
    /\ needsUpdate # {}

\* C16: a collide event of a snowball with a body other than the card
\* draws on neither canvas, leaves the snowball's isCollided flag as it
\* was and does not mark the snowball.
C16_OnlyCardHitsCount ==
    [][(ev'.type = "collide" /\ ev'.body # "card") =>
          UNCHANGED <<snowCanvasFront, snowCanvasBack, needsUpdate,
                      snowballs, toRemove>>]_vars

\* a snowball has touched the ground and is neither flagged nor marked
C16_Witness ==
    /\ ev.type = "collide" /\ ev.body = "ground"
    /\ InList(snowballs, ev.sb)
    /\ ~snowballs[IndexOf(snowballs, ev.sb)].isCollided
    /\ ev.sb \notin toRemove

\* C17: a snowball that is in toRemove paints no splat: no collide event
\* of a marked snowball calls addSnowSplat.
C17_MarkedNeverPaints ==
    [][(ev'.type = "collide" /\ ev'.painted) => ev'.sb \notin toRemove]_vars

\* C18: in game.js the elevation is linear in the pointer height: y = -1
\* gives 0, y = 0 gives 45 degrees, y = +1 gives 90 degrees.
C18_LinearElevation ==
    (variant = "game" /\ isAiming) =>
        -cannonRotation.rx =
            NormY([clientX |-> currentAim.x, clientY |-> currentAim.y]) + 6

\* C19: currentPower equals slider value / 100 * maxThrowPower whenever a
\* snowball can be thrown, also before the slider has been moved.
C19_PowerMatchesSlider ==
    pc = "idle" => currentPower * 100 = powerSlider * maxThrowPower

====
